---- MODULE Spec2Model ----
(***************************************************************************)
(* Model of the vocabulary indexes of nyt-games-bots:                      *)
(*   - the arena trie of vocab-tree (trie.rs) with its depth-first         *)
(*     (traversal.rs) and best-first (traversal_inorder.rs) traversals;    *)
(*   - the recursive prefix tree of prefix-tree (lib.rs).                  *)
(* Arena indices are the 0-based indices of the Rust code; the node with   *)
(* index i is nodes[i + 1].  Option<T> is a sequence of length 0 (None)    *)
(* or 1 (Some).                                                            *)
(***************************************************************************)
EXTENDS Integers, Sequences, FiniteSets, TLC

\* ---- bounds -------------------------------------------------------------
NumSymbols == 2
MaxLen == 2
MaxCost == 1
MaxPush == 3
MaxOps == 4

Symbols == 1..NumSymbols
Costs == 0..MaxCost
Words == UNION {[1..n -> Symbols] : n \in 0..MaxLen}

\* ---- Option ------------------------------------------------------------
None == <<>>
Some(x) == <<x>>

\* ---- trie.rs: Key -----------------------------------------------------
\* A key is <<variant, symbol>>; the variants are numbered in declaration
\* order, which is the order #[derive(Ord)] gives them.
Start == <<0, 0>>
Internal(k) == <<1, k>>
End == <<2, 0>>

\* ---- trie.rs: Node ----------------------------------------------------
NewNode(parent, key) ==
    [key |-> key, min_descendent |-> None, children |-> <<>>, parent |-> parent]

VARIABLES
    nodes,      \* Trie.nodes: the arena
    inserted,   \* history: the (sequence, cost) pairs pushed so far
    npush,      \* history: the number of push calls so far
    trav,       \* the live traversal object over the arena, if any
    trav2,      \* a second traversal object over the same arena, if any
    rtrie,      \* lib.rs Trie.root: the root of the removable trie
    rhist,      \* history: the insert and remove calls on the removable trie
    ptree,      \* PrefixTree: the root node of the recursive prefix tree
    pkeys,      \* history: the (key, value) pairs of the set calls so far
    snode,      \* node.rs: the root Node of the recursive sorted-children trie
    spushed,    \* history: the (keys, value) pairs pushed into snode so far
    word_list,  \* crossword: the word list handed to Vocab::new
    vocab,      \* crossword: the Vocab built from word_list, once built
    board,      \* crossword: the Board
    clues,      \* crossword: what Board::clues returned, once called
    letters,    \* letter-boxed: LettersBoxedGame.letters
    legal_words,\* letter-boxed: what all_possible_words returned, once called
    reach       \* letter-boxed: the dijkstra_reach iterator inside solve()

vars == <<nodes, inserted, npush, trav, trav2, rtrie, rhist, ptree, pkeys,
          snode, spushed, word_list, vocab, board, clues, letters, legal_words, reach>>

\* ---- small helpers ---------------------------------------------------
\* Mutant of SelectFirst: only the first child is compared.
SelectFirst_OnlyHead(ns, cs, k) ==
    IF cs = <<>> THEN None
    ELSE IF ns[Head(cs) + 1].key = k THEN Some(Head(cs))
    ELSE None

RECURSIVE SelectFirst(_, _, _)
\* Iterator::find over the child list cs of arena ns: the first child index
\* whose node carries key k.
SelectFirst(ns, cs, k) ==
    IF cs = <<>> THEN None
    ELSE IF ns[Head(cs) + 1].key = k THEN Some(Head(cs))
    ELSE SelectFirst(ns, Tail(cs), k)

get_child_index(ns, parent_index, child_key) ==
    SelectFirst(ns, ns[parent_index + 1].children, child_key)

children(ns, parent_index) == ns[parent_index + 1].children

\* Mutant of get_or_create_child_index: a new node names the root as its
\* parent, whichever node lists it as a child.
get_or_create_child_index_ParentRoot(ns, parent_index, child_key) ==
    LET maybe_index == SelectFirst(ns, ns[parent_index + 1].children, child_key)
    IN IF maybe_index # None
       THEN [nodes |-> ns, index |-> maybe_index[1]]
       ELSE LET pushed == Append(ns, NewNode(Some(0), child_key))
                child_index == Len(pushed) - 1
            IN [nodes |-> [pushed EXCEPT ![parent_index + 1].children =
                                  Append(@, child_index)],
                index |-> child_index]

\* Mutant of get_or_create_child_index: the child is created even when it
\* exists.
get_or_create_child_index_AlwaysCreate(ns, parent_index, child_key) ==
    LET pushed == Append(ns, NewNode(Some(parent_index), child_key))
        child_index == Len(pushed) - 1
    IN [nodes |-> [pushed EXCEPT ![parent_index + 1].children =
                         Append(@, child_index)],
        index |-> child_index]

\* Mutant of get_or_create_child_index: a new child goes to the front of
\* the parent's child list.
get_or_create_child_index_Prepend(ns, parent_index, child_key) ==
    LET maybe_index == SelectFirst(ns, ns[parent_index + 1].children, child_key)
    IN IF maybe_index # None
       THEN [nodes |-> ns, index |-> maybe_index[1]]
       ELSE LET pushed == Append(ns, NewNode(Some(parent_index), child_key))
                child_index == Len(pushed) - 1
            IN [nodes |-> [pushed EXCEPT ![parent_index + 1].children =
                                  <<child_index>> \o @],
                index |-> child_index]

\* Returns [nodes, index]: the arena after the call and the child's index.
get_or_create_child_index(ns, parent_index, child_key) ==
    LET maybe_index == SelectFirst(ns, ns[parent_index + 1].children, child_key)
    IN IF maybe_index # None
       THEN [nodes |-> ns, index |-> maybe_index[1]]
       ELSE LET pushed == Append(ns, NewNode(Some(parent_index), child_key))
                child_index == Len(pushed) - 1
            IN [nodes |-> [pushed EXCEPT ![parent_index + 1].children =
                                  Append(@, child_index)],
                index |-> child_index]

update_min_descendent(ns, index_to_update, value) ==
    LET cur == ns[index_to_update + 1].min_descendent
    IN IF cur = None
       THEN [ns EXCEPT ![index_to_update + 1].min_descendent = Some(value)]
       ELSE IF cur[1] < value
       THEN [ns EXCEPT ![index_to_update + 1].min_descendent = Some(value)]
       ELSE ns

RECURSIVE PushLoop(_, _, _, _)
\* The for loop of Trie::push followed by the End step.
PushLoop(ns, current_index, keys, value) ==
    IF keys = <<>>
    THEN LET r == get_or_create_child_index(ns, current_index, End)
         IN update_min_descendent(r.nodes, r.index, value)
    ELSE LET r == get_or_create_child_index(ns, current_index, Internal(Head(keys)))
         IN PushLoop(update_min_descendent(r.nodes, r.index, value),
                     r.index, Tail(keys), value)

push(ns, keys, value) ==
    LET rooted == IF ns = <<>> THEN <<NewNode(None, Start)>> ELSE ns
    IN PushLoop(rooted, 0, keys, value)

\* ---- trie.rs: Trie::get ------------------------------------------------
\* A call's outcome is [panicked, value]: value is the Option the call
\* returns, panicked says that it aborted instead (index out of bounds, a
\* failed expect).
Returned(v) == [panicked |-> FALSE, value |-> v]
Panicked == [panicked |-> TRUE, value |-> None]

RECURSIVE get_node_index(_, _, _)
\* The loop of Trie::get_node_index from current_index on; indexing
\* self.nodes[current_index] aborts when the arena has no such node.
get_node_index(ns, current_index, keys) ==
    IF keys = <<>> THEN Returned(Some(current_index))
    ELSE IF current_index + 1 > Len(ns) THEN Panicked
    ELSE LET c == get_child_index(ns, current_index, Head(keys))
         IN IF c = None THEN Returned(None)
            ELSE get_node_index(ns, c[1], Tail(keys))

get(ns, keys) ==
    LET chained == [i \in 1..Len(keys) |-> Internal(keys[i])] \o <<End>>
        r == get_node_index(ns, 0, chained)
    IN IF r.panicked THEN Panicked
       ELSE IF r.value = None THEN Returned(None)
       ELSE LET m == ns[r.value[1] + 1].min_descendent
            IN IF m = None THEN Panicked ELSE Returned(Some(m[1]))

\* ---- accessors used by the traversals -----------------------------------
child_indices(ns, index) == ns[index + 1].children
root(ns) == IF ns = <<>> THEN None ELSE Some(ns[1])
value(node) == node.min_descendent

\* ---- traversal.rs: Pattern ---------------------------------------------
\* A Query is Option<Key>: None is the wildcard.
compile_pattern(positions) ==
    <<Some(Start)>>
    \o [i \in 1..Len(positions) |->
          IF positions[i] = None THEN None ELSE Some(Internal(positions[i][1]))]
    \o <<Some(End)>>

Positions == UNION {[1..n -> {None} \cup {Some(k) : k \in Symbols}] : n \in 0..MaxLen}
Patterns == {None} \cup {Some(compile_pattern(ps)) : ps \in Positions}

\* ---- the traversal object ----------------------------------------------
\* kind: "none" (no traversal alive), "dfs" (TrieDfsTraversal) or
\* "dijkstra" (DijkstraTraversal).  stack is the Vec of (index, depth),
\* last element on top; heap is the set of HeapItems in the BinaryHeap.
\* visited lists the node indices next() has returned; status is "live",
\* "done" once next() has returned None, or "panic" once next() aborted.
NoTraversal ==
    [kind |-> "none", pattern |-> None, stack |-> <<>>, heap |-> {},
     visited |-> <<>>, status |-> "done"]

dfs_from_index(start_index, pattern) ==
    [kind |-> "dfs", pattern |-> pattern, stack |-> <<<<start_index, 0>>>>,
     heap |-> {}, visited |-> <<>>, status |-> "live"]

dfs_from_root(pattern) == dfs_from_index(0, pattern)

\* &p[depth + 1..]
SliceFrom(p, from) == SubSeq(p, from + 1, Len(p))

\* Mutant of dfs_next: a Matches(k) constraint pushes every child.
dfs_next_IgnoresConstraint(ns, t) ==
    IF t.stack = <<>> THEN [t EXCEPT !.status = "done"]
    ELSE
      LET top == t.stack[Len(t.stack)]
          index == top[1]
          depth == top[2]
          popped == SubSeq(t.stack, 1, Len(t.stack) - 1)
      IN IF t.pattern # None /\ depth + 1 > Len(t.pattern[1])
         THEN [t EXCEPT !.stack = popped, !.status = "panic"]
         ELSE IF index + 1 > Len(ns)
         THEN [t EXCEPT !.stack = popped, !.status = "panic"]
         ELSE
           LET remaining == IF t.pattern = None THEN None
                            ELSE Some(SliceFrom(t.pattern[1], depth + 1))
               cs == child_indices(ns, index)
               pushed ==
                 IF remaining = None \/ (remaining[1] # <<>> /\ remaining[1][1] = None)
                 THEN popped \o [i \in 1..Len(cs) |-> <<cs[i], depth + 1>>]
                 ELSE IF remaining[1] # <<>>
                 THEN popped \o [i \in 1..Len(cs) |-> <<cs[i], depth + 1>>]
                 ELSE popped
           IN [t EXCEPT !.stack = pushed, !.visited = Append(@, index)]

\* Mutant of dfs_next: the children are pushed last-stored first.
dfs_next_ChildrenReversed(ns, t) ==
    IF t.stack = <<>> THEN [t EXCEPT !.status = "done"]
    ELSE
      LET top == t.stack[Len(t.stack)]
          index == top[1]
          depth == top[2]
          popped == SubSeq(t.stack, 1, Len(t.stack) - 1)
      IN IF t.pattern # None /\ depth + 1 > Len(t.pattern[1])
         THEN [t EXCEPT !.stack = popped, !.status = "panic"]
         ELSE IF index + 1 > Len(ns)
         THEN [t EXCEPT !.stack = popped, !.status = "panic"]
         ELSE
           LET remaining == IF t.pattern = None THEN None
                            ELSE Some(SliceFrom(t.pattern[1], depth + 1))
               stored == child_indices(ns, index)
               cs == [i \in 1..Len(stored) |-> stored[Len(stored) + 1 - i]]
               pushed ==
                 IF remaining = None \/ (remaining[1] # <<>> /\ remaining[1][1] = None)
                 THEN popped \o [i \in 1..Len(cs) |-> <<cs[i], depth + 1>>]
                 ELSE IF remaining[1] # <<>>
                 THEN LET c == get_child_index(ns, index, remaining[1][1][1])
                      IN IF c # None THEN Append(popped, <<c[1], depth + 1>>)
                         ELSE popped
                 ELSE popped
           IN [t EXCEPT !.stack = pushed, !.visited = Append(@, index)]

dfs_next(ns, t) ==
    IF t.stack = <<>> THEN [t EXCEPT !.status = "done"]
    ELSE
      LET top == t.stack[Len(t.stack)]
          index == top[1]
          depth == top[2]
          popped == SubSeq(t.stack, 1, Len(t.stack) - 1)
      IN IF t.pattern # None /\ depth + 1 > Len(t.pattern[1])
         THEN [t EXCEPT !.stack = popped, !.status = "panic"]
         ELSE IF index + 1 > Len(ns)
         THEN [t EXCEPT !.stack = popped, !.status = "panic"]
         ELSE
           LET remaining == IF t.pattern = None THEN None
                            ELSE Some(SliceFrom(t.pattern[1], depth + 1))
               cs == child_indices(ns, index)
               pushed ==
                 IF remaining = None \/ (remaining[1] # <<>> /\ remaining[1][1] = None)
                 THEN popped \o [i \in 1..Len(cs) |-> <<cs[i], depth + 1>>]
                 ELSE IF remaining[1] # <<>>
                 THEN LET c == get_child_index(ns, index, remaining[1][1][1])
                      IN IF c # None THEN Append(popped, <<c[1], depth + 1>>)
                         ELSE popped
                 ELSE popped
           IN [t EXCEPT !.stack = pushed, !.visited = Append(@, index)]

\* ---- traversal_inorder.rs ------------------------------------------------
\* Option<V>'s derived order: None is below every Some.
OptionLess(x, y) ==
    \/ x = None /\ y # None
    \/ x # None /\ y # None /\ x[1] < y[1]

HeapItem(v, index, depth) == [value |-> v, index |-> index, depth |-> depth]

\* #[derive(Ord)] of HeapItem: by Reverse(value), then index, then depth.
HeapItemLess(a, b) ==
    \/ OptionLess(b.value, a.value)
    \/ /\ a.value = b.value
       /\ \/ a.index < b.index
          \/ a.index = b.index /\ a.depth < b.depth

\* BinaryHeap::pop takes the greatest item.
HeapMax(h) == CHOOSE x \in h : \A y \in h : y = x \/ HeapItemLess(y, x)

dijkstra_from_index(ns, start_index, pattern) ==
    [kind |-> "dijkstra", pattern |-> pattern, stack |-> <<>>,
     heap |-> IF root(ns) = None THEN {}
              ELSE {HeapItem(value(root(ns)[1]), start_index, 0)},
     visited |-> <<>>, status |-> "live"]

dijkstra_from_root(ns, pattern) == dijkstra_from_index(ns, 0, pattern)

dijkstra_next(ns, t) ==
    IF t.heap = {} THEN [t EXCEPT !.status = "done"]
    ELSE
      LET top == HeapMax(t.heap)
          index == top.index
          depth == top.depth
          popped == t.heap \ {top}
      IN IF t.pattern # None /\ depth + 1 > Len(t.pattern[1])
         THEN [t EXCEPT !.heap = popped, !.status = "panic"]
         ELSE IF index + 1 > Len(ns)
         THEN [t EXCEPT !.heap = popped, !.status = "panic"]
         ELSE
           LET remaining == IF t.pattern = None THEN None
                            ELSE Some(SliceFrom(t.pattern[1], depth + 1))
               cs == child_indices(ns, index)
               pushed ==
                 IF remaining = None \/ (remaining[1] # <<>> /\ remaining[1][1] = None)
                 THEN popped \cup
                      {HeapItem(value(ns[cs[i] + 1]), cs[i], depth + 1) : i \in 1..Len(cs)}
                 ELSE IF remaining[1] # <<>>
                 THEN LET c == get_child_index(ns, index, remaining[1][1][1])
                      IN IF c # None
                         THEN popped \cup {HeapItem(value(ns[c[1] + 1]), c[1], depth + 1)}
                         ELSE popped
                 ELSE popped
           IN [t EXCEPT !.heap = pushed, !.visited = Append(@, index)]

\* ---- iter_values_unordered / iter_values_ordered ------------------------
RECURSIVE path_to_root_FromSelf(_, _)
\* Mutant of path_to_root: the node's own key is looked at before stepping
\* to the parent.
path_to_root_FromSelf(ns, index) ==
    LET key == ns[index + 1].key
        parent == ns[index + 1].parent
    IN IF key[1] # 1 THEN <<>>
       ELSE IF parent = None THEN <<key[2]>>
       ELSE <<key[2]>> \o path_to_root_FromSelf(ns, parent[1])

RECURSIVE path_to_root(_, _)
\* The symbols the path_to_root iterator yields for the node with this
\* index: it steps to the parent first and stops at the first key that is
\* not Internal.
path_to_root(ns, index) ==
    LET parent == ns[index + 1].parent
    IN IF parent = None THEN <<>>
       ELSE LET key == ns[parent[1] + 1].key
            IN IF key[1] = 1 THEN <<key[2]>> \o path_to_root(ns, parent[1])
               ELSE <<>>

RECURSIVE iter_values_NotOnlyEnd(_, _)
\* Mutant of iter_values: every node but the root is reported as a match.
iter_values_NotOnlyEnd(ns, visited) ==
    IF visited = <<>> THEN <<>>
    ELSE LET index == Head(visited)
             rest == iter_values_NotOnlyEnd(ns, Tail(visited))
         IN IF ns[index + 1].key # Start
            THEN <<[path |-> path_to_root(ns, index),
                    value |-> value(ns[index + 1])]>> \o rest
            ELSE rest

RECURSIVE iter_values(_, _)
\* The filter_map over the nodes a traversal returned: one (path, value)
\* item for every End node, in the order returned.
iter_values(ns, visited) ==
    IF visited = <<>> THEN <<>>
    ELSE LET index == Head(visited)
             rest == iter_values(ns, Tail(visited))
         IN IF ns[index + 1].key = End
            THEN <<[path |-> path_to_root(ns, index),
                    value |-> value(ns[index + 1])]>> \o rest
            ELSE rest

\* The tests collect a path and reverse it to read the word.
Reversed(path) == [i \in 1..Len(path) |-> path[Len(path) + 1 - i]]

RECURSIVE collect_unordered(_, _)
\* Draining a TrieDfsTraversal (collect, count): next() until it returns
\* None or aborts.
collect_unordered(ns, t) ==
    IF t.status # "live" THEN t ELSE collect_unordered(ns, dfs_next(ns, t))

iter_values_unordered(ns, pattern) ==
    iter_values(ns, collect_unordered(ns, dfs_from_root(pattern)).visited)

RECURSIVE collect_ordered(_, _)
\* Draining the best-first traversal: next() until it returns None or aborts.
collect_ordered(ns, t) ==
    IF t.status # "live" THEN t ELSE collect_ordered(ns, dijkstra_next(ns, t))

\* ---- prefix-tree/lib.rs --------------------------------------------------
\* A node of the recursive prefix tree owns its children.
Node_new(prefix, val) ==
    [prefix_component |-> prefix, value |-> val, children |-> <<>>]

PrefixTree_empty == Node_new(None, None)

\* QueryResult
Value(v) == [tag |-> "Value", value |-> Some(v)]
NotFound == [tag |-> "NotFound", value |-> None]
Prefix == [tag |-> "Prefix", value |-> None]

RECURSIVE ChildPosition(_, _, _)
\* self.children.iter().filter(prefix_component == Some(next)).next(): the
\* position (from i on) of the first child carrying the component, 0 if none.
ChildPosition(cs, next, i) ==
    IF i > Len(cs) THEN 0
    ELSE IF cs[i].prefix_component = Some(next) THEN i
    ELSE ChildPosition(cs, next, i + 1)

RECURSIVE Node_set(_, _, _)
Node_set(node, key, val) ==
    IF key = <<>> THEN [node EXCEPT !.value = Some(val)]
    ELSE LET next == Head(key)
             possible_child == ChildPosition(node.children, next, 1)
         IN IF possible_child = 0
            THEN [node EXCEPT !.children =
                    Append(@, Node_set(Node_new(Some(next), None), Tail(key), val))]
            ELSE [node EXCEPT !.children[possible_child] =
                    Node_set(@, Tail(key), val)]

RECURSIVE Node_get(_, _)
Node_get(node, key) ==
    IF key = <<>>
    THEN IF node.value # None THEN Value(node.value[1]) ELSE Prefix
    ELSE LET child == ChildPosition(node.children, Head(key), 1)
         IN IF child = 0 THEN NotFound
            ELSE Node_get(node.children[child], Tail(key))

\* ---- prefix-tree/lib.rs: StringPrefixTree -----------------------------------
\* StringPrefixTree is a PrefixTree<char, ()>.
Unit == <<>>

StringPrefixTree_contains(t, key) == Node_get(t, key).tag = "Value"

StringPrefixTree_contains_prefix(t, key) == Node_get(t, key).tag # "NotFound"

StringPrefixTree_add(t, key) == Node_set(t, key, Unit)

\* ---- vocab-tree/lib.rs: the removable trie -----------------------------------
\* A TrieNode owns its children; key is None at the root only.
TrieNode(key, val) == [key |-> key, value |-> val, children |-> <<>>]

Trie_empty == TrieNode(None, None)

RECURSIVE KeyPosition(_, _, _)
\* children.iter().position(child.key == k): the position (from i on) of the
\* first child carrying key k, 0 if there is none.
KeyPosition(cs, k, i) ==
    IF i > Len(cs) THEN 0
    ELSE IF cs[i].key = Some(k) THEN i
    ELSE KeyPosition(cs, k, i + 1)

RemoveAt(cs, pos) == SubSeq(cs, 1, pos - 1) \o SubSeq(cs, pos + 1, Len(cs))

RECURSIVE TrieNode_insert(_, _, _)
\* Returns [node, old]: the node after the call and the value it replaced.
TrieNode_insert(node, key, val) ==
    IF key = <<>>
    THEN [node |-> [node EXCEPT !.value = Some(val)], old |-> node.value]
    ELSE LET k == Head(key)
             pos == KeyPosition(node.children, k, 1)
         IN IF pos # 0
            THEN LET r == TrieNode_insert(node.children[pos], Tail(key), val)
                 IN [node |-> [node EXCEPT !.children[pos] = r.node],
                     old |-> r.old]
            ELSE LET r == TrieNode_insert(TrieNode(Some(k), None), Tail(key), val)
                 IN [node |-> [node EXCEPT !.children = Append(@, r.node)],
                     old |-> r.old]

RECURSIVE TrieNode_remove_PruneLastOnly(_, _)
\* Mutant of TrieNode_remove: only the node at the end of the key is pruned,
\* never an ancestor the pruning has emptied.
TrieNode_remove_PruneLastOnly(node, key) ==
    IF key = <<>>
    THEN [node |-> [node EXCEPT !.value = None], removed |-> node.value]
    ELSE LET pos == KeyPosition(node.children, Head(key), 1)
         IN IF pos = 0 THEN [node |-> node, removed |-> None]
            ELSE LET r == TrieNode_remove_PruneLastOnly(node.children[pos], Tail(key))
                 IN IF r.node.value = None /\ r.node.children = <<>>
                       /\ Tail(key) = <<>>
                    THEN [node |-> [node EXCEPT !.children = RemoveAt(@, pos)],
                          removed |-> r.removed]
                    ELSE [node |-> [node EXCEPT !.children[pos] = r.node],
                          removed |-> r.removed]

RECURSIVE TrieNode_remove_PruneValueless(_, _)
\* Mutant of TrieNode_remove: a child without value is pruned even when it
\* still has children.
TrieNode_remove_PruneValueless(node, key) ==
    IF key = <<>>
    THEN [node |-> [node EXCEPT !.value = None], removed |-> node.value]
    ELSE LET pos == KeyPosition(node.children, Head(key), 1)
         IN IF pos = 0 THEN [node |-> node, removed |-> None]
            ELSE LET r == TrieNode_remove_PruneValueless(node.children[pos], Tail(key))
                 IN IF r.node.value = None
                    THEN [node |-> [node EXCEPT !.children = RemoveAt(@, pos)],
                          removed |-> r.removed]
                    ELSE [node |-> [node EXCEPT !.children[pos] = r.node],
                          removed |-> r.removed]

RECURSIVE TrieNode_remove_NoPrune(_, _)
\* Mutant of TrieNode_remove: an emptied child is never pruned.
TrieNode_remove_NoPrune(node, key) ==
    IF key = <<>>
    THEN [node |-> [node EXCEPT !.value = None], removed |-> node.value]
    ELSE LET pos == KeyPosition(node.children, Head(key), 1)
         IN IF pos = 0 THEN [node |-> node, removed |-> None]
            ELSE LET r == TrieNode_remove_NoPrune(node.children[pos], Tail(key))
                 IN [node |-> [node EXCEPT !.children[pos] = r.node],
                     removed |-> r.removed]

RECURSIVE TrieNode_remove(_, _)
\* Returns [node, removed]: the node after the call and the value taken out.
TrieNode_remove(node, key) ==
    IF key = <<>>
    THEN [node |-> [node EXCEPT !.value = None], removed |-> node.value]
    ELSE LET pos == KeyPosition(node.children, Head(key), 1)
         IN IF pos = 0 THEN [node |-> node, removed |-> None]
            ELSE LET r == TrieNode_remove(node.children[pos], Tail(key))
                 IN IF r.node.value = None /\ r.node.children = <<>>
                    THEN [node |-> [node EXCEPT !.children = RemoveAt(@, pos)],
                          removed |-> r.removed]
                    ELSE [node |-> [node EXCEPT !.children[pos] = r.node],
                          removed |-> r.removed]

RECURSIVE TrieNode_search(_, _)
\* Some(descendent) at the end of the query's path, None if the path breaks.
TrieNode_search(node, query) ==
    IF query = <<>> THEN Some(node)
    ELSE LET pos == KeyPosition(node.children, Head(query), 1)
         IN IF pos = 0 THEN None
            ELSE TrieNode_search(node.children[pos], Tail(query))

Trie_is_empty(t) == t.children = <<>>

Trie_get(t, query) ==
    LET n == TrieNode_search(t, query)
    IN IF n = None THEN None ELSE n[1].value

Trie_contains_prefix(t, query) == TrieNode_search(t, query) # None

\* ---- node.rs: the recursive trie with sorted children ------------------------
\* A node owns its children; Children keeps them in a Vec searched by
\* binary search on the key.
SortedNode_with_contents(contents) ==
    [contents |-> contents, children |-> <<>>, min_descendent |-> None]

SortedNode_new == SortedNode_with_contents(Start)

\* #[derive(Ord)] of Key: by variant, then by the symbol.
KeyLess(a, b) == a[1] < b[1] \/ (a[1] = b[1] /\ a[2] < b[2])

RECURSIVE binary_search_by_key(_, _, _, _)
\* slice::binary_search_by_key over cs (positions counted from 0) between
\* left and right: [found, index], Ok(index) or Err(index).
binary_search_by_key(cs, key, left, right) ==
    IF left >= right THEN [found |-> FALSE, index |-> left]
    ELSE LET mid == left + ((right - left) \div 2)
             probe == cs[mid + 1].contents
         IN IF probe = key THEN [found |-> TRUE, index |-> mid]
            ELSE IF KeyLess(probe, key)
            THEN binary_search_by_key(cs, key, mid + 1, right)
            ELSE binary_search_by_key(cs, key, left, mid)

\* Vec::insert(index, x)
InsertAt(seq, index, x) ==
    SubSeq(seq, 1, index) \o <<x>> \o SubSeq(seq, index + 1, Len(seq))

Children_get(cs, key) ==
    LET r == binary_search_by_key(cs, key, 0, Len(cs))
    IN IF r.found THEN Some(cs[r.index + 1]) ELSE None

\* Mutant of Children_get_or_create: a new child goes to the end of the Vec.
Children_get_or_create_AtEnd(cs, key) ==
    LET r == binary_search_by_key(cs, key, 0, Len(cs))
    IN IF r.found THEN [children |-> cs, index |-> r.index]
       ELSE [children |-> Append(cs, SortedNode_with_contents(key)),
             index |-> Len(cs)]

\* Returns [children, index]: the Vec after the call and the child's position.
Children_get_or_create(cs, key) ==
    LET r == binary_search_by_key(cs, key, 0, Len(cs))
    IN IF r.found THEN [children |-> cs, index |-> r.index]
       ELSE [children |-> InsertAt(cs, r.index, SortedNode_with_contents(key)),
             index |-> r.index]

RECURSIVE SortedNode_push(_, _, _)
SortedNode_push(node, suffix, val) ==
    LET updated ==
          IF node.min_descendent = None
          THEN [node EXCEPT !.min_descendent = Some(val)]
          ELSE IF val < node.min_descendent[1]
          THEN [node EXCEPT !.min_descendent = Some(val)]
          ELSE node
    IN IF suffix # <<>>
       THEN LET r == Children_get_or_create(updated.children, Head(suffix))
                child == r.children[r.index + 1]
            IN [updated EXCEPT !.children =
                  [r.children EXCEPT ![r.index + 1] =
                      SortedNode_push(child, Tail(suffix), val)]]
       ELSE updated

RECURSIVE SortedNode_find_descendent(_, _)
SortedNode_find_descendent(node, suffix) ==
    IF suffix # <<>>
    THEN LET c == Children_get(node.children, Head(suffix))
         IN IF c = None THEN None
            ELSE SortedNode_find_descendent(c[1], Tail(suffix))
    ELSE Some(node)

\* The suffix a symbol sequence is stored under: its symbols as Internal
\* keys, closed by End (the root carries Start).
wrap_keys(keys) == [i \in 1..Len(keys) |-> Internal(keys[i])] \o <<End>>

\* ---- crossword/square.rs, word.rs ------------------------------------------
\* Bytes are their u8 values.  The bytes words are drawn from: 'A', 'B',
\* 'a', '-' and the two bytes 0xC3 0xAA of the UTF-8 encoding of U+00EA.
MaxWordLen == 2
MaxWords == 2
Bytes == {65, 66, 97, 45, 195, 170}

\* The byte strings that are a &str: 0xC3 is followed by 0xAA, and 0xAA
\* follows 0xC3.
ValidUtf8(w) ==
    /\ \A i \in 1..Len(w) : w[i] = 195 => (i < Len(w) /\ w[i + 1] = 170)
    /\ \A i \in 1..Len(w) : w[i] = 170 => (i > 1 /\ w[i - 1] = 195)

\* (byte as char).is_alphabetic() for the chars U+0000..U+00FF
is_alphabetic(b) ==
    b \in (65..90) \cup (97..122) \cup {170, 181, 186}
           \cup (192..214) \cup (216..246) \cup (248..255)

is_ascii_uppercase(b) == b \in 65..90

to_ascii_uppercase(b) == IF b \in 97..122 THEN b - 32 ELSE b

\* Square::EMPTY and Square::BLOCKED
EMPTY == 0
BLOCKED == 1

\* impl TryFrom<u8> for Square: [ok, square]
Square_try_from(byte) ==
    IF byte \in 0..1 THEN [ok |-> TRUE, square |-> byte]
    ELSE IF is_ascii_uppercase(byte) THEN [ok |-> TRUE, square |-> byte]
    ELSE [ok |-> FALSE, square |-> EMPTY]

Square_is_empty(sq) == sq = EMPTY
Square_is_blocked(sq) == sq = BLOCKED

\* impl TryFrom<&[u8]> for Word: [ok, chars]
Word_try_from(bytes) ==
    IF \A i \in 1..Len(bytes) : is_alphabetic(bytes[i])
    THEN [ok |-> TRUE,
          chars |-> [i \in 1..Len(bytes) |-> to_ascii_uppercase(bytes[i])]]
    ELSE [ok |-> FALSE, chars |-> <<>>]

\* ---- crossword/vocab.rs ------------------------------------------------------
\* The HashMap is a set of entries [key, words], at most one per key.
HashMap_contains_key(m, k) == \E e \in m : e.key = k
HashMap_entry(m, k) == CHOOSE e \in m : e.key = k
HashMap_get(m, k) ==
    IF HashMap_contains_key(m, k) THEN Some(HashMap_entry(m, k).words) ELSE None

\* Mutant of multi_cartesian_product: the squares are never left empty.
RECURSIVE multi_cartesian_product_NoEmpty(_)
multi_cartesian_product_NoEmpty(squares) ==
    IF squares = <<>> THEN <<<<>>>>
    ELSE LET rest == multi_cartesian_product_NoEmpty(Tail(squares))
         IN [i \in 1..Len(rest) |-> <<Head(squares)>> \o rest[i]]

RECURSIVE multi_cartesian_product(_)
\* The product of [s, Square::EMPTY] over the squares of a word, the last
\* position varying fastest.
multi_cartesian_product(squares) ==
    IF squares = <<>> THEN <<<<>>>>
    ELSE LET rest == multi_cartesian_product(Tail(squares))
         IN [i \in 1..Len(rest) |-> <<Head(squares)>> \o rest[i]]
            \o [i \in 1..Len(rest) |-> <<EMPTY>> \o rest[i]]

RECURSIVE InsertPartialWords(_, _, _)
\* The inner for loop of Vocab::new: push the word under each partial word.
InsertPartialWords(m, partial_words, word) ==
    IF partial_words = <<>> THEN m
    ELSE LET k == Head(partial_words)
             with_key == IF HashMap_contains_key(m, k) THEN m
                         ELSE m \cup {[key |-> k, words |-> <<>>]}
             old == HashMap_entry(with_key, k)
             pushed == (with_key \ {old})
                         \cup {[key |-> k, words |-> Append(old.words, word)]}
         IN InsertPartialWords(pushed, Tail(partial_words), word)

\* The Vocab: state is "none" before Vocab::new, "built" after it returned,
\* "panic" when it aborted.
NotBuilt == [state |-> "none", vocab |-> {}]
Built(m) == [state |-> "built", vocab |-> m]
BuildPanicked == [state |-> "panic", vocab |-> {}]

RECURSIVE VocabLoop(_, _)
\* The outer for loop of Vocab::new over the strings of the word list.
VocabLoop(m, strings) ==
    IF strings = <<>> THEN Built(m)
    ELSE LET w == Word_try_from(Head(strings))
         IN IF ~w.ok THEN VocabLoop(m, Tail(strings))
            ELSE IF \E i \in 1..Len(w.chars) : ~Square_try_from(w.chars[i]).ok
            THEN BuildPanicked
            ELSE LET squares == [i \in 1..Len(w.chars) |->
                                    Square_try_from(w.chars[i]).square]
                 IN VocabLoop(InsertPartialWords(m,
                                  multi_cartesian_product(squares), w.chars),
                              Tail(strings))

Vocab_new(strings) == VocabLoop({}, strings)

Vocab_matches(m, squares) ==
    LET found == HashMap_get(m, squares)
    IN IF found = None THEN <<>> ELSE found[1]

\* ---- crossword/main.rs: Position; clue.rs; board.rs ----------------------------
MaxRows == 3
MaxCols == 3

Position(row, col) == [row |-> row, col |-> col]
Position_right(p) == Position(p.row, p.col + 1)
Position_down(p) == Position(p.row + 1, p.col)
Position_left(p) == Position(p.row, p.col - 1)
Position_up(p) == Position(p.row - 1, p.col)

Clue(direction, start, length) ==
    [direction |-> direction, start |-> start, length |-> length]

\* A Board is [squares, n_rows, n_cols]; NoBoard is the board of "".
NoBoard == [squares |-> <<>>, n_rows |-> 1, n_cols |-> 0]

\* impl Index<Position> for Board
Board_index(b, p) == b.squares[b.n_cols * p.row + p.col + 1]

\* Board::positions: row by row
Board_positions(b) ==
    [i \in 1..(b.n_rows * b.n_cols) |->
        Position((i - 1) \div b.n_cols, (i - 1) % b.n_cols)]

\* Mutant of AcrossLength: the run is counted up to the board edge.
RECURSIVE AcrossLength_ToEdge(_, _, _)
AcrossLength_ToEdge(b, current, i) ==
    IF current.col < b.n_cols
    THEN AcrossLength_ToEdge(b, Position_right(current), i + 1)
    ELSE i

RECURSIVE AcrossLength(_, _, _)
\* The while loop of the across clue.
AcrossLength(b, current, i) ==
    IF current.col < b.n_cols /\ ~Square_is_blocked(Board_index(b, current))
    THEN AcrossLength(b, Position_right(current), i + 1)
    ELSE i

RECURSIVE DownLength(_, _, _)
\* The while loop of the down clue.
DownLength(b, current, i) ==
    IF current.row < b.n_rows /\ ~Square_is_blocked(Board_index(b, current))
    THEN DownLength(b, Position_down(current), i + 1)
    ELSE i

\* The body of the for loop of Board::clues at one position.
CluesAt(b, pos) ==
    IF Square_is_blocked(Board_index(b, pos)) THEN <<>>
    ELSE (IF pos.col = 0 \/ Square_is_blocked(Board_index(b, Position_left(pos)))
          THEN <<Clue("Across", pos, AcrossLength(b, pos, 0))>>
          ELSE <<>>)
         \o
         (IF pos.row = 0 \/ Square_is_blocked(Board_index(b, Position_up(pos)))
          THEN <<Clue("Down", pos, DownLength(b, pos, 0))>>
          ELSE <<>>)

RECURSIVE CluesLoop(_, _)
CluesLoop(b, positions) ==
    IF positions = <<>> THEN <<>>
    ELSE CluesAt(b, Head(positions)) \o CluesLoop(b, Tail(positions))

Board_clues(b) == CluesLoop(b, Board_positions(b))

\* Clue::positions
Clue_positions(clue) ==
    [i \in 1..clue.length |->
        IF clue.direction = "Across"
        THEN Position(clue.start.row, clue.start.col + (i - 1))
        ELSE Position(clue.start.row + (i - 1), clue.start.col)]

\* ---- letter-boxed/main.rs ----------------------------------------------------
\* The board has N_SIDES sides of N_PER_SIDE letters (4 and 3 in the
\* program; a smaller board is explored here).  Letters are Symbols, which
\* stand for upper-case letters; 0 is the default char of an unset square.
N_PER_SIDE == 2
N_SIDES == 2
WORD_LEN_THRESHOLD == 3
VOCAB_SIZE == 50000
MaxVocab == 2
MaxVocabWordLen == 3

LbPosition(side, index) == <<side, index>>

\* all_moves(): side by side
all_moves ==
    [i \in 1..(N_SIDES * N_PER_SIDE) |->
        LbPosition((i - 1) \div N_PER_SIDE, (i - 1) % N_PER_SIDE)]

LbPositions == {all_moves[i] : i \in 1..Len(all_moves)}

\* Mutant of valid_moves: any other position is a legal move, whatever its side.
valid_moves_AnySide(pos) ==
    SelectSeq(all_moves, LAMBDA p : p # pos)

valid_moves(pos) ==
    SelectSeq(all_moves, LAMBDA p : p[1] # pos[1])

\* Board<bool>::default, all_true, all_false and BitOr: a Board<bool> is the
\* set of the positions holding true.

\* Mutant of all_true: one used position is enough.
all_true_NonEmpty(used) == used # {}

all_true(used) == used = LbPositions
all_false(used) == used = {}

\* The game before LettersBoxedGame::new: built is FALSE, letters are default.
NoLetters == [built |-> FALSE, at |-> [p \in LbPositions |-> 0]]

\* load_vocabulary: the lines of the word list are (word, popularity) pairs.
RECURSIVE SetAll(_, _)
SetAll(tree, pairs) ==
    IF pairs = <<>> THEN tree
    ELSE SetAll(Node_set(tree, Head(pairs)[1], Head(pairs)[2]), Tail(pairs))

VocabularyPairs(lines) ==
    LET long == SelectSeq(lines, LAMBDA l : Len(l[1]) >= WORD_LEN_THRESHOLD)
    IN SubSeq(long, 1, IF Len(long) < VOCAB_SIZE THEN Len(long) ELSE VOCAB_SIZE)

load_vocabulary(lines) == SetAll(PrefixTree_empty, VocabularyPairs(lines))

\* The nodes of dfs_reach are (position, word, letters used).
ReachNode(pos, word, used) == [pos |-> pos, word |-> word, letters |-> used]

\* The closure handed to dfs_reach: the next letters that keep the word a
\* prefix or a word of the vocabulary.
WordSuccessors(game_letters, vocabulary, node) ==
    LET moves == valid_moves(node.pos)
        kept == SelectSeq(moves, LAMBDA next_pos :
                   Node_get(vocabulary,
                            Append(node.word, game_letters[next_pos])).tag
                     # "NotFound")
    IN [i \in 1..Len(kept) |->
          ReachNode(kept[i], Append(node.word, game_letters[kept[i]]),
                    node.letters \cup {kept[i]})]

RECURSIVE NotSeen(_, _)
\* The successors not seen yet, each marked seen as it is taken.
NotSeen(successors, seen) ==
    IF successors = <<>> THEN <<>>
    ELSE IF Head(successors) \in seen THEN NotSeen(Tail(successors), seen)
    ELSE <<Head(successors)>>
         \o NotSeen(Tail(successors), seen \cup {Head(successors)})

RECURSIVE dfs_reach(_, _, _, _, _)
\* pathfinding's dfs_reach drained: pop a node, push its unseen successors
\* in reverse, yield the node.
dfs_reach(game_letters, vocabulary, to_see, seen, out) ==
    IF to_see = <<>> THEN out
    ELSE LET n == to_see[Len(to_see)]
             to_insert == NotSeen(WordSuccessors(game_letters, vocabulary, n), seen)
         IN dfs_reach(game_letters, vocabulary,
                      SubSeq(to_see, 1, Len(to_see) - 1) \o Reversed(to_insert),
                      seen \cup {to_insert[i] : i \in 1..Len(to_insert)},
                      Append(out, n))

\* The words reachable from one starting position.
words_from(game_letters, vocabulary, starting_pos) ==
    LET start == ReachNode(starting_pos, <<game_letters[starting_pos]>>,
                           {starting_pos})
        reachable == dfs_reach(game_letters, vocabulary, <<start>>, {start}, <<>>)
    IN SelectSeq(reachable,
                 LAMBDA n : Node_get(vocabulary, n.word).tag = "Value")

all_possible_words(game_letters, vocabulary) ==
    [starting_pos \in LbPositions |->
        words_from(game_letters, vocabulary, starting_pos)]

\* GameState; its Eq and Hash ignore moves.
GameState(pos, used, moves) ==
    [pos |-> pos, letters_used |-> used, moves |-> moves]

GameState_default == GameState(LbPosition(0, 0), {}, <<>>)

SameState(a, b) == a.pos = b.pos /\ a.letters_used = b.letters_used

RECURSIVE Flatten(_)
Flatten(seqs) == IF seqs = <<>> THEN <<>> ELSE Head(seqs) \o Flatten(Tail(seqs))

\* The closure handed to dijkstra_reach: (next state, cost) pairs.
neighbors(words, state) ==
    IF all_false(state.letters_used)
    THEN LET entries == Flatten([i \in 1..Len(all_moves) |-> words[all_moves[i]]])
         IN [i \in 1..Len(entries) |->
               [state |-> GameState(entries[i].pos, entries[i].letters,
                                    <<entries[i].word>>),
                cost |-> 1000 - Len(entries[i].word)]]
    ELSE LET entries == words[state.pos]
         IN [i \in 1..Len(entries) |->
               [state |-> GameState(entries[i].pos,
                                    state.letters_used \cup entries[i].letters,
                                    Append(state.moves, entries[i].word)),
                cost |-> 1000 - Len(entries[i].word)]]

\* std's BinaryHeap over SmallestHolder [cost, index]: the data Vec with
\* positions counted from 0.  SmallestHolder compares by cost, reversed.
HolderLe(x, y) == x.cost >= y.cost

RECURSIVE sift_up(_, _, _, _)
\* The hole at pos, carrying element, moves up while its parent is smaller.
sift_up(data, start, pos, element) ==
    IF pos > start
    THEN LET parent_pos == (pos - 1) \div 2
         IN IF HolderLe(element, data[parent_pos + 1])
            THEN [data EXCEPT ![pos + 1] = element]
            ELSE sift_up([data EXCEPT ![pos + 1] = data[parent_pos + 1]],
                         start, parent_pos, element)
    ELSE [data EXCEPT ![pos + 1] = element]

BinaryHeap_push(data, item) ==
    sift_up(Append(data, item), 0, Len(data), item)

RECURSIVE sift_down_to_bottom(_, _, _, _)
\* The hole at pos moves down to a leaf along the greater children, then
\* the element is sifted up from there.
sift_down_to_bottom(data, pos, child, element) ==
    LET end == Len(data)
    IN IF end >= 2 /\ child <= end - 2
       THEN LET greater == IF HolderLe(data[child + 1], data[child + 2])
                           THEN child + 1 ELSE child
            IN sift_down_to_bottom([data EXCEPT ![pos + 1] = data[greater + 1]],
                                   greater, 2 * greater + 1, element)
       ELSE IF child = end - 1
       THEN sift_up([data EXCEPT ![pos + 1] = data[child + 1]], 0, child, element)
       ELSE sift_up(data, 0, pos, element)

\* BinaryHeap::pop on a non-empty heap: [item, data]
BinaryHeap_pop(data) ==
    LET last == data[Len(data)]
        rest == SubSeq(data, 1, Len(data) - 1)
    IN IF rest = <<>> THEN [item |-> last, data |-> rest]
       ELSE [item |-> rest[1],
             data |-> sift_down_to_bottom([rest EXCEPT ![1] = last], 0, 1, last)]

\* pathfinding's DijkstraReachable: parents is the index map (entries
\* [node, parent, cost], positions counted from 0), to_see the heap of
\* [cost, index], seen the set of indices already popped; yielded lists
\* the move sequences solve() has handed out.
NoReach ==
    [state |-> "none", to_see |-> <<>>, parents |-> <<>>, seen |-> {},
     yielded |-> <<>>]

dijkstra_reach(start) ==
    [state |-> "live", to_see |-> <<[cost |-> 0, index |-> 0]>>,
     parents |-> <<[node |-> start, parent |-> None, cost |-> 0]>>,
     seen |-> {}, yielded |-> <<>>]

\* The position of the node equal to n in the index map, 0 if absent.
IndexOf(parents, n) ==
    IF \E i \in 1..Len(parents) : SameState(parents[i].node, n)
    THEN CHOOSE i \in 1..Len(parents) : SameState(parents[i].node, n)
    ELSE 0

RECURSIVE Relax(_, _, _, _)
\* The for loop over the successors of the node at index, popped at cost.
Relax(r, index, cost, successors) ==
    IF successors = <<>> THEN r
    ELSE LET successor == Head(successors).state
             new_cost == cost + Head(successors).cost
             at == IndexOf(r.parents, successor)
         IN IF at = 0
            THEN Relax([r EXCEPT
                          !.parents = Append(@, [node |-> successor,
                                                 parent |-> Some(index),
                                                 cost |-> new_cost]),
                          !.to_see = BinaryHeap_push(@, [cost |-> new_cost,
                                                         index |-> Len(r.parents)])],
                       index, cost, Tail(successors))
            ELSE IF r.parents[at].cost > new_cost
            THEN Relax([r EXCEPT
                          !.parents[at].parent = Some(index),
                          !.parents[at].cost = new_cost,
                          !.to_see = BinaryHeap_push(@, [cost |-> new_cost,
                                                         index |-> at - 1])],
                       index, cost, Tail(successors))
            ELSE Relax(r, index, cost, Tail(successors))

RECURSIVE solve_next(_, _)
\* One next() of the iterator solve() returns: reachable states are popped
\* until one covers the whole board (its moves are yielded) or none is left.
solve_next(words, r) ==
    IF r.to_see = <<>> THEN [r EXCEPT !.state = "done"]
    ELSE LET p == BinaryHeap_pop(r.to_see)
             index == p.item.index
         IN IF index \in r.seen
            THEN solve_next(words, [r EXCEPT !.to_see = p.data])
            ELSE LET node == r.parents[index + 1].node
                     popped == [r EXCEPT !.to_see = p.data,
                                         !.seen = @ \cup {index}]
                     relaxed == Relax(popped, index, p.item.cost,
                                      neighbors(words, node))
                 IN IF all_true(node.letters_used)
                    THEN [relaxed EXCEPT !.yielded = Append(@, node.moves)]
                    ELSE solve_next(words, relaxed)

Init ==
    /\ nodes = <<>>
    /\ inserted = {}
    /\ npush = 0
    /\ trav = NoTraversal
    /\ trav2 = NoTraversal
    /\ rtrie = Trie_empty
    /\ rhist = <<>>
    /\ ptree = PrefixTree_empty
    /\ pkeys = <<>>
    /\ snode = SortedNode_new
    /\ spushed = <<>>
    /\ word_list = <<>>
    /\ vocab = NotBuilt
    /\ board = NoBoard
    /\ clues = None
    /\ letters = NoLetters
    /\ legal_words = None
    /\ reach = NoReach

\* push with no regard for the shared borrows the traversals hold.
Push_WhileBorrowed(keys, val) ==
    /\ npush < MaxPush
    /\ nodes' = push(nodes, keys, val)
    /\ inserted' = inserted \cup {<<keys, val>>}
    /\ npush' = npush + 1
    /\ UNCHANGED <<trav, trav2, rtrie, rhist, ptree, pkeys,
                 snode, spushed, word_list, vocab, board, clues, letters, legal_words, reach>>

\* push takes &mut self: no traversal (each holds &'a Trie) is alive.
Push(keys, val) ==
    /\ trav.kind = "none"
    /\ trav2.kind = "none"
    /\ npush < MaxPush
    /\ nodes' = push(nodes, keys, val)
    /\ inserted' = inserted \cup {<<keys, val>>}
    /\ npush' = npush + 1
    /\ UNCHANGED <<trav, trav2, rtrie, rhist, ptree, pkeys,
                 snode, spushed, word_list, vocab, board, clues, letters, legal_words, reach>>

DfsFromRoot(pattern) ==
    /\ trav.kind = "none"
    /\ trav' = dfs_from_root(pattern)
    /\ UNCHANGED <<nodes, inserted, npush, trav2, rtrie, rhist, ptree, pkeys,
                 snode, spushed, word_list, vocab, board, clues, letters, legal_words, reach>>

DfsNext ==
    /\ trav.kind = "dfs"
    /\ trav.status = "live"
    /\ trav' = dfs_next(nodes, trav)
    /\ UNCHANGED <<nodes, inserted, npush, trav2, rtrie, rhist, ptree, pkeys,
                 snode, spushed, word_list, vocab, board, clues, letters, legal_words, reach>>

DijkstraFromRoot(pattern) ==
    /\ trav.kind = "none"
    /\ trav' = dijkstra_from_root(nodes, pattern)
    /\ UNCHANGED <<nodes, inserted, npush, trav2, rtrie, rhist, ptree, pkeys,
                 snode, spushed, word_list, vocab, board, clues, letters, legal_words, reach>>

DijkstraNext ==
    /\ trav.kind = "dijkstra"
    /\ trav.status = "live"
    /\ trav' = dijkstra_next(nodes, trav)
    /\ UNCHANGED <<nodes, inserted, npush, trav2, rtrie, rhist, ptree, pkeys,
                 snode, spushed, word_list, vocab, board, clues, letters, legal_words, reach>>

Drop ==
    /\ trav.kind # "none"
    /\ trav' = NoTraversal
    /\ UNCHANGED <<nodes, inserted, npush, trav2, rtrie, rhist, ptree, pkeys,
                 snode, spushed, word_list, vocab, board, clues, letters, legal_words, reach>>

Next ==
    \/ \E keys \in Words, val \in Costs : Push(keys, val)
    \/ \E pattern \in Patterns : DfsFromRoot(pattern)
    \/ DfsNext
    \/ \E pattern \in Patterns : DijkstraFromRoot(pattern)
    \/ DijkstraNext
    \/ Drop

Spec == Init /\ [][Next]_vars

\* ---- the prefix tree on its own ------------------------------------------
PrefixTreeSet(key, val) ==
    /\ Len(pkeys) < MaxPush
    /\ ptree' = Node_set(ptree, key, val)
    /\ pkeys' = Append(pkeys, <<key, val>>)
    /\ UNCHANGED <<nodes, inserted, npush, trav, trav2, rtrie, rhist,
                 snode, spushed, word_list, vocab, board, clues, letters, legal_words, reach>>

NextPrefixTree ==
    \E key \in Words, val \in Costs : PrefixTreeSet(key, val)

SpecPrefixTree == Init /\ [][NextPrefixTree]_vars

\* ---- what the claims speak about ----------------------------------------
InsertedWords == {p[1] : p \in inserted}
CostsOf(s) == {p[2] : p \in {q \in inserted : q[1] = s}}
MinOf(S) == CHOOSE c \in S : \A d \in S : c <= d
IsPrefix(s, w) == Len(s) <= Len(w) /\ SubSeq(w, 1, Len(s)) = s
NonEmptyPrefixes(w) == {SubSeq(w, 1, n) : n \in 1..Len(w)}

\* The symbols from the root down to the node with this index, itself included.
NodeWord(ns, index) ==
    LET key == ns[index + 1].key
        above == Reversed(path_to_root(ns, index))
    IN IF key[1] = 1 THEN Append(above, key[2]) ELSE above

\* The costs of the complete sequences stored in the subtree of a node.
SubtreeCosts(ns, index) ==
    {p[2] : p \in {q \in inserted :
        IF ns[index + 1].key = End THEN q[1] = NodeWord(ns, index)
        ELSE IsPrefix(NodeWord(ns, index), q[1])}}

\* C1: every inserted sequence s is found by the exact query, with the
\* minimum of all the costs ever inserted for s.
C1_RoundTripMinimum ==
    \A s \in InsertedWords : get(nodes, s) = Returned(Some(MinOf(CostsOf(s))))

\* C5: every node's aggregate is the smallest cost among the complete
\* sequences of its subtree, so no child's aggregate is below its parent's.
C5_AggregateIsSubtreeMinimum ==
    \A i \in 0..(Len(nodes) - 1) :
        /\ nodes[i + 1].min_descendent = Some(MinOf(SubtreeCosts(nodes, i)))
        /\ nodes[i + 1].parent # None =>
             ~OptionLess(nodes[i + 1].min_descendent,
                         nodes[nodes[i + 1].parent[1] + 1].min_descendent)

\* C6: after at least one insertion the root carries an aggregate, the
\* minimum cost over all stored sequences.
C6_RootAggregateIsGlobalMinimum ==
    npush > 0 => nodes[1].min_descendent = Some(MinOf({p[2] : p \in inserted}))

\* ---- traversals ------------------------------------------------------------
\* What the live traversal has yielded so far, as iter_values_* filters it.
Yielded == iter_values(nodes, trav.visited)
ItemsOf(vals) == {vals[i] : i \in 1..Len(vals)}
YieldedWords == {Reversed(v.path) : v \in ItemsOf(Yielded)}
NonDecreasing(vals) ==
    \A i, j \in 1..Len(vals) : i < j => ~OptionLess(vals[j].value, vals[i].value)
Ended == trav.status # "live"

\* The words a compiled pattern [Start, p_0 .. p_{n-1}, End] stands for.
BruteForceMatches(p) ==
    {w \in InsertedWords :
        /\ Len(w) = Len(p) - 2
        /\ \A i \in 1..Len(w) : p[i + 1] # None => p[i + 1] = Some(Internal(w[i]))}

\* C3: the costs the best-first traversal yields are non-decreasing from
\* first to last, for every pattern and for no pattern.
C3_OrderedCostsNonDecreasing ==
    trav.kind = "dijkstra" => NonDecreasing(Yielded)

\* C4: for a compiled fixed-length pattern, the sequences the unordered
\* traversal yields are exactly the inserted sequences of the pattern's
\* length that agree with it at every fixed position.
C4_PatternMatchesBruteForce ==
    (trav.kind = "dfs" /\ Ended /\ trav.pattern # None)
        => YieldedWords = BruteForceMatches(trav.pattern[1])

\* C9: the best-first traversal yields the same matches as the unordered
\* traversal of the same pattern, each exactly once, in ascending cost order.
C9_OrderedSameAsUnorderedAscending ==
    (trav.kind = "dijkstra" /\ Ended) =>
        LET unordered == iter_values_unordered(nodes, trav.pattern)
        IN /\ ItemsOf(Yielded) = ItemsOf(unordered)
           /\ Len(Yielded) = Cardinality(ItemsOf(Yielded))
           /\ Len(unordered) = Cardinality(ItemsOf(unordered))
           /\ NonDecreasing(Yielded)

\* C10: with no pattern the unordered traversal yields every distinct
\* inserted sequence exactly once, each with the cost stored for it.
C10_UnorderedYieldsEveryWordOnce ==
    (trav.kind = "dfs" /\ Ended /\ trav.pattern = None) =>
        /\ YieldedWords = InsertedWords
        /\ Len(Yielded) = Cardinality(InsertedWords)
        /\ \A v \in ItemsOf(Yielded) :
             /\ v.value # None
             /\ v.value[1] \in CostsOf(Reversed(v.path))
             /\ get(nodes, Reversed(v.path)) = Returned(v.value)

\* C10 witness: a finished traversal without pattern over two stored words
\* that share a first symbol and carry different costs.
C10_Witness ==
    /\ trav.kind = "dfs" /\ trav.status = "done" /\ trav.pattern = None
    /\ inserted = {<<(<<1, 1>>), 0>>, <<(<<1, 2>>), 1>>}
    /\ ItemsOf(Yielded) = {[path |-> <<1, 1>>, value |-> Some(0)],
                           [path |-> <<2, 1>>, value |-> Some(1)]}

\* ---- shape of the arena -----------------------------------------------------
\* The sequences a traversal without pattern reaches in arena ns.
ReachableWords(ns) ==
    {Reversed(v.path) : v \in ItemsOf(iter_values_unordered(ns, None))}

SameShape(before, after) ==
    /\ Len(after) = Len(before)
    /\ \A i \in 1..Len(before) :
         /\ after[i].key = before[i].key
         /\ after[i].parent = before[i].parent
         /\ after[i].children = before[i].children

\* C7: a push of a (sequence, cost) pair that was pushed before leaves the
\* number of nodes, every node's key, parent and children, and the set of
\* sequences a traversal reaches unchanged.
C7_RepeatedInsertIdempotent ==
    [][(npush' = npush + 1 /\ inserted' = inserted) =>
          /\ SameShape(nodes, nodes')
          /\ ReachableWords(nodes') = ReachableWords(nodes)]_vars

\* C7 witness: the same pair was pushed twice.
C7_Witness ==
    /\ npush = 2
    /\ inserted = {<<(<<1, 2>>), 1>>}
    /\ Len(nodes) = 4

DistinctPrefixes == UNION {NonEmptyPrefixes(w) : w \in InsertedWords}
ExpectedNodeCount == 1 + Cardinality(DistinctPrefixes) + Cardinality(InsertedWords)

\* C8 as stated: after any sequence of inserts, the empty one included, the
\* arena holds 1 + distinct non-empty prefixes + distinct sequences nodes.
C8_NodeCountAlways == Len(nodes) = ExpectedNodeCount

\* C8: after at least one insert the arena holds exactly 1 (root) + the
\* number of distinct non-empty prefixes of inserted sequences + the number
\* of distinct inserted sequences nodes.
C8_NodeCountAfterFirstInsert == npush > 0 => Len(nodes) = ExpectedNodeCount

\* C8 witness: two sequences sharing their first symbol share its node
\* (root, the shared symbol, and a symbol node and an End node for each).
C8_Witness ==
    /\ InsertedWords = {<<1, 1>>, <<1, 2>>}
    /\ Len(nodes) = 6

\* ---- prefix tree ----------------------------------------------------------
StoredKeys == {pkeys[i][1] : i \in 1..Len(pkeys)}
QueryWords == UNION {[1..n -> Symbols] : n \in 0..(MaxLen + 1)}

\* C2: the exact query answers Value exactly for the keys that were set,
\* Prefix exactly for the other proper prefixes of a key that was set, and
\* NotFound for everything else.
C2_ThreeWayClassification ==
    \A s \in QueryWords :
        LET r == Node_get(ptree, s)
            stored == s \in StoredKeys
            proper == \E k \in StoredKeys : IsPrefix(s, k) /\ s # k
        IN /\ r.tag = "Value" <=> stored
           /\ r.tag = "Prefix" <=> (~stored /\ proper)
           /\ r.tag = "NotFound" <=> (~stored /\ ~proper)
\* ---- the empty structure and aborts -------------------------------------------
\* C11: on the empty structure (nothing was ever inserted) the exact query
\* returns "unknown" for every input sequence, as an ordinary result: None
\* from the arena trie, NotFound from the prefix tree.
C11_EmptyStructureQueryUnknown ==
    /\ npush = 0 => \A s \in QueryWords : get(nodes, s) = Returned(None)
    /\ pkeys = <<>> => \A s \in QueryWords : Node_get(ptree, s) = NotFound

\* C12: over the empty arena the unordered traversal without pattern yields
\* nothing: its first next() returns end-of-iteration and touches no node.
C12_EmptyArenaTraversalEndsAtOnce ==
    (trav.kind = "dfs" /\ trav.pattern = None /\ nodes = <<>> /\ Ended)
        => (trav.status = "done" /\ trav.visited = <<>>)

\* C13: no query aborts: in every state reachable by inserts the exact query
\* returns for every input sequence, and no next() of a traversal, with any
\* pattern or none, aborts.
C13_NoQueryAborts ==
    /\ \A s \in QueryWords : ~get(nodes, s).panicked
    /\ trav.status # "panic"

\* C14: with a pattern compiled from n positions, every sequence a traversal
\* yields has exactly n symbols.
C14_YieldedHaveThePatternLength ==
    (trav.kind # "none" /\ trav.pattern # None) =>
        \A v \in ItemsOf(Yielded) : Len(v.path) = Len(trav.pattern[1]) - 2

\* ---- stability of the arena ---------------------------------------------------
\* C15: a push never removes or relocates a node: every node that existed
\* keeps its index, key and parent, and its child list is only extended at
\* the end.
C15_PushKeepsExistingNodes ==
    [][npush' = npush + 1 =>
          /\ Len(nodes') >= Len(nodes)
          /\ \A i \in 1..Len(nodes) :
               /\ nodes'[i].key = nodes[i].key
               /\ nodes'[i].parent = nodes[i].parent
               /\ IsPrefix(nodes[i].children, nodes'[i].children)]_vars

\* C15 witness: the root's child list was extended by a second push.
C15_Witness ==
    /\ InsertedWords = {<<1>>, <<2>>}
    /\ Len(nodes) = 5
    /\ Len(nodes[1].children) = 2

\* ---- the reported sequence -----------------------------------------------------
RECURSIVE KeysFromRoot(_, _)
\* The symbols on the path from the root down to a node, first symbol of
\* the stored word first, sentinels left out.
KeysFromRoot(ns, index) ==
    LET node == ns[index + 1]
        own == IF node.key[1] = 1 THEN <<node.key[2]>> ELSE <<>>
    IN IF node.parent = None THEN own
       ELSE KeysFromRoot(ns, node.parent[1]) \o own

EndsVisited == {trav.visited[k] : k \in {j \in 1..Len(trav.visited) :
                                           nodes[trav.visited[j] + 1].key = End}}

\* C17 as stated: the reported symbols of a match are in root-to-leaf order.
C17_PathRootToLeaf ==
    \A index \in EndsVisited : path_to_root(nodes, index) = KeysFromRoot(nodes, index)

\* C17: the reported symbols of a match are the symbols on the path between
\* the root and the matched End node, sentinels excluded, in leaf-to-root
\* order (last symbol of the stored word first).
C17_PathLeafToRoot ==
    \A index \in EndsVisited :
        path_to_root(nodes, index) = Reversed(KeysFromRoot(nodes, index))

\* C17 witness: the match of the stored word 1 2 was reported as 2 1.
C17_Witness ==
    /\ <<1, 2>> \in InsertedWords
    /\ \E index \in EndsVisited : path_to_root(nodes, index) = <<2, 1>>

\* ---- the removable trie on its own -------------------------------------------
TrieInsert(key, val) ==
    /\ Len(rhist) < MaxOps
    /\ rtrie' = TrieNode_insert(rtrie, key, val).node
    /\ rhist' = Append(rhist, [op |-> "insert", key |-> key, value |-> Some(val)])
    /\ UNCHANGED <<nodes, inserted, npush, trav, trav2, ptree, pkeys,
                 snode, spushed, word_list, vocab, board, clues, letters, legal_words, reach>>

TrieRemove(key) ==
    /\ Len(rhist) < MaxOps
    /\ rtrie' = TrieNode_remove(rtrie, key).node
    /\ rhist' = Append(rhist, [op |-> "remove", key |-> key, value |-> None])
    /\ UNCHANGED <<nodes, inserted, npush, trav, trav2, ptree, pkeys,
                 snode, spushed, word_list, vocab, board, clues, letters, legal_words, reach>>

NextRemovable ==
    \/ \E key \in Words, val \in Costs : TrieInsert(key, val)
    \/ \E key \in Words : TrieRemove(key)

SpecRemovable == Init /\ [][NextRemovable]_vars

RECURSIVE KeysAfter(_)
\* The keys the removable trie should hold after a history of calls.
KeysAfter(h) ==
    IF h = <<>> THEN {}
    ELSE LET last == h[Len(h)]
             before == KeysAfter(SubSeq(h, 1, Len(h) - 1))
         IN IF last.op = "insert" THEN before \cup {last.key}
            ELSE before \ {last.key}

InsertedKeys(h) == {h[i].key : i \in {j \in 1..Len(h) : h[j].op = "insert"}}

\* C18: remove(k) makes get(k) return None and leaves get(j) as it was for
\* every other key j: keys sharing a prefix with k, proper prefixes of k
\* and extensions of k included.
C18_RemoveTouchesOnlyItsKey ==
    [][(Len(rhist') = Len(rhist) + 1 /\ rhist'[Len(rhist')].op = "remove") =>
          LET k == rhist'[Len(rhist')].key
          IN /\ Trie_get(rtrie', k) = None
             /\ \A j \in QueryWords \ {k} :
                  Trie_get(rtrie', j) = Trie_get(rtrie, j)]_vars

\* C18 witness: 1, 1 1 and 1 2 were stored and 1 was removed: its two
\* extensions, which share the prefix, are still found.
C18_Witness ==
    /\ Len(rhist) = 4
    /\ {rhist[i].op : i \in 1..3} = {"insert"}
    /\ {rhist[i].key : i \in 1..3} = {<<1>>, <<1, 1>>, <<1, 2>>}
    /\ rhist[4].op = "remove" /\ rhist[4].key = <<1>>
    /\ Trie_get(rtrie, <<1>>) = None
    /\ Trie_get(rtrie, <<1, 1>>) # None
    /\ Trie_get(rtrie, <<1, 2>>) # None

\* C19: once every key that was inserted has been removed again, all of them
\* non-empty, is_empty() is true: the root has no children left.
C19_AllRemovedIsEmpty ==
    (<<>> \notin InsertedKeys(rhist) /\ KeysAfter(rhist) = {})
        => Trie_is_empty(rtrie)

\* C19 witness: two keys sharing their first symbol were inserted and both
\* removed.
C19_Witness ==
    /\ Len(rhist) = 4
    /\ InsertedKeys(rhist) = {<<1, 1>>, <<1, 2>>}
    /\ rhist[3].op = "remove" /\ rhist[4].op = "remove"
    /\ KeysAfter(rhist) = {}
    /\ Trie_is_empty(rtrie)

\* ---- the string prefix tree on its own ---------------------------------------
StringPrefixTreeAdd(key) ==
    /\ Len(pkeys) < MaxPush
    /\ ptree' = StringPrefixTree_add(ptree, key)
    /\ pkeys' = Append(pkeys, <<key, Unit>>)
    /\ UNCHANGED <<nodes, inserted, npush, trav, trav2, rtrie, rhist,
                 snode, spushed, word_list, vocab, board, clues, letters, legal_words, reach>>

NextStringPrefixTree ==
    \E key \in Words : StringPrefixTreeAdd(key)

SpecStringPrefixTree == Init /\ [][NextStringPrefixTree]_vars

\* C20: after any sequence of add calls, contains(k) is true exactly when k
\* was added as a whole key, and contains_prefix(p) exactly when p is a
\* prefix (empty, proper or full) of at least one added key.
C20_ContainsAndContainsPrefix ==
    \A k \in QueryWords :
        /\ StringPrefixTree_contains(ptree, k) <=> k \in StoredKeys
        /\ StringPrefixTree_contains_prefix(ptree, k)
             <=> \E key \in StoredKeys : IsPrefix(k, key)

\* ---- two traversals over one arena ------------------------------------------
PairMaxPush == 2

\* The traversal requests of the pair: no pattern, or a pattern of wildcards.
PairPatterns ==
    {None} \cup {Some(compile_pattern(ps)) :
                    ps \in {q \in Positions : \A i \in DOMAIN q : q[i] = None}}

PushPair(keys, val) ==
    /\ npush < PairMaxPush
    /\ Push(keys, val)

SecondDfsFromRoot(pattern) ==
    /\ trav2.kind = "none"
    /\ trav2' = dfs_from_root(pattern)
    /\ UNCHANGED <<nodes, inserted, npush, trav, rtrie, rhist, ptree, pkeys,
                 snode, spushed, word_list, vocab, board, clues, letters, legal_words, reach>>

SecondDfsNext ==
    /\ trav2.kind = "dfs"
    /\ trav2.status = "live"
    /\ trav2' = dfs_next(nodes, trav2)
    /\ UNCHANGED <<nodes, inserted, npush, trav, rtrie, rhist, ptree, pkeys,
                 snode, spushed, word_list, vocab, board, clues, letters, legal_words, reach>>

SecondDijkstraFromRoot(pattern) ==
    /\ trav2.kind = "none"
    /\ trav2' = dijkstra_from_root(nodes, pattern)
    /\ UNCHANGED <<nodes, inserted, npush, trav, rtrie, rhist, ptree, pkeys,
                 snode, spushed, word_list, vocab, board, clues, letters, legal_words, reach>>

SecondDijkstraNext ==
    /\ trav2.kind = "dijkstra"
    /\ trav2.status = "live"
    /\ trav2' = dijkstra_next(nodes, trav2)
    /\ UNCHANGED <<nodes, inserted, npush, trav, rtrie, rhist, ptree, pkeys,
                 snode, spushed, word_list, vocab, board, clues, letters, legal_words, reach>>

SecondDrop ==
    /\ trav2.kind # "none"
    /\ trav2' = NoTraversal
    /\ UNCHANGED <<nodes, inserted, npush, trav, rtrie, rhist, ptree, pkeys,
                 snode, spushed, word_list, vocab, board, clues, letters, legal_words, reach>>

NextPair ==
    \/ \E keys \in Words, val \in Costs : PushPair(keys, val)
    \/ \E pattern \in PairPatterns : DfsFromRoot(pattern)
    \/ DfsNext
    \/ \E pattern \in PairPatterns : DijkstraFromRoot(pattern)
    \/ DijkstraNext
    \/ Drop
    \/ \E pattern \in PairPatterns : SecondDfsFromRoot(pattern)
    \/ SecondDfsNext
    \/ \E pattern \in PairPatterns : SecondDijkstraFromRoot(pattern)
    \/ SecondDijkstraNext
    \/ SecondDrop

SpecPair == Init /\ [][NextPair]_vars

\* What a traversal of the given kind and pattern yields when it is the only
\* one run over the arena, from a fresh start to its end.
AloneRun(ns, kind, pattern) ==
    IF kind = "dfs" THEN collect_unordered(ns, dfs_from_root(pattern))
    ELSE collect_ordered(ns, dijkstra_from_root(ns, pattern))

\* t has so far returned the first nodes of its alone run, and once it has
\* ended it has returned all of them and ended the same way.
AsAlone(t) ==
    t.kind # "none" =>
        LET alone == AloneRun(nodes, t.kind, t.pattern)
        IN /\ IsPrefix(t.visited, alone.visited)
           /\ t.status # "live" =>
                (t.visited = alone.visited /\ t.status = alone.status)

NodePush(keys, val) ==
    /\ Len(spushed) < MaxPush
    /\ snode' = SortedNode_push(snode, wrap_keys(keys), val)
    /\ spushed' = Append(spushed, <<keys, val>>)
    /\ UNCHANGED <<nodes, inserted, npush, trav, trav2, rtrie, rhist, ptree, pkeys,
                 word_list, vocab, board, clues, letters, legal_words, reach>>

NextInserts ==
    \/ \E keys \in Words, val \in Costs : PushPair(keys, val)
    \/ \E keys \in Words, val \in Costs : NodePush(keys, val)

SpecInserts == Init /\ [][NextInserts]_vars

\* ---- the crossword vocabulary ----------------------------------------------
\* split_whitespace hands Vocab::new non-empty strings only.
WordStrings == {w \in UNION {[1..n -> Bytes] : n \in 1..MaxWordLen} : ValidUtf8(w)}
WordLists == UNION {[1..n -> WordStrings] : n \in 0..MaxWords}

InitTries ==
    /\ nodes = <<>>
    /\ inserted = {}
    /\ npush = 0
    /\ trav = NoTraversal
    /\ trav2 = NoTraversal
    /\ rtrie = Trie_empty
    /\ rhist = <<>>
    /\ ptree = PrefixTree_empty
    /\ pkeys = <<>>
    /\ snode = SortedNode_new
    /\ spushed = <<>>
    /\ letters = NoLetters
    /\ legal_words = None
    /\ reach = NoReach

InitVocab ==
    /\ InitTries
    /\ word_list \in WordLists
    /\ vocab = NotBuilt
    /\ board = NoBoard
    /\ clues = None

VocabNew ==
    /\ vocab.state = "none"
    /\ vocab' = Vocab_new(word_list)
    /\ UNCHANGED <<nodes, inserted, npush, trav, trav2, rtrie, rhist, ptree, pkeys,
                 snode, spushed, word_list, board, clues, letters, legal_words,
                 reach>>

NextVocab == VocabNew

SpecVocab == InitVocab /\ [][NextVocab]_vars

\* The words Vocab::new keeps, in list order, as it stores them.
AcceptedWords ==
    LET kept == SelectSeq(word_list, LAMBDA w : Word_try_from(w).ok)
    IN [i \in 1..Len(kept) |-> Word_try_from(kept[i]).chars]

\* The patterns of letter and empty squares, up to one square longer than
\* any word.
LetterEmptyPatterns ==
    UNION {[1..n -> {EMPTY, 65, 66}] : n \in 0..(MaxWordLen + 1)}

MatchesPattern(w, squares) ==
    /\ Len(w) = Len(squares)
    /\ \A i \in 1..Len(squares) : squares[i] = EMPTY \/ squares[i] = w[i]

\* C21: for the vocabulary built from a word list, matches(pattern) returns
\* exactly the accepted words of the pattern's length that carry the
\* pattern's letter at every non-empty position (every word of that length
\* for an all-empty pattern), and the empty slice when there is none.
C21_MatchesReturnsTheMatchingWords ==
    vocab.state = "built" =>
        \A squares \in LetterEmptyPatterns :
            Vocab_matches(vocab.vocab, squares)
              = SelectSeq(AcceptedWords, LAMBDA w : MatchesPattern(w, squares))

C21_Witness ==
    /\ vocab.state = "built"
    /\ Len(word_list) = 2
    /\ Len(Vocab_matches(vocab.vocab, <<EMPTY, 66>>)) = 2
    /\ Vocab_matches(vocab.vocab, <<65, 66>>) # <<>>
    /\ Vocab_matches(vocab.vocab, <<66, EMPTY>>) = <<>>

\* ---- the crossword board -----------------------------------------------------
\* The boards Board::try_from accepts: every row as long as the first.
BoardSquares == {EMPTY, BLOCKED, 65}
Boards ==
    UNION {{[squares |-> sq, n_rows |-> r, n_cols |-> c] :
              sq \in [1..(r * c) -> BoardSquares]} :
           r \in 1..MaxRows, c \in 0..MaxCols}

InitBoard ==
    /\ InitTries
    /\ word_list = <<>>
    /\ vocab = NotBuilt
    /\ board \in Boards
    /\ clues = None

BoardClues ==
    /\ clues = None
    /\ clues' = Some(Board_clues(board))
    /\ UNCHANGED <<nodes, inserted, npush, trav, trav2, rtrie, rhist, ptree, pkeys,
                 snode, spushed, word_list, vocab, board, letters, legal_words,
                 reach>>

NextBoard == BoardClues

SpecBoard == InitBoard /\ [][NextBoard]_vars

\* The square at a row and column of the board.
SquareAt(b, row, col) == b.squares[b.n_cols * row + col + 1]

\* The maximal horizontal runs of non-blocked squares, as the clues they call for.
AcrossRuns(b) ==
    {Clue("Across", Position(r, c), n) :
        <<r, c, n>> \in
          {t \in (0..(b.n_rows - 1)) \X (0..(b.n_cols - 1)) \X (1..b.n_cols) :
              /\ t[2] + t[3] <= b.n_cols
              /\ \A k \in t[2]..(t[2] + t[3] - 1) : SquareAt(b, t[1], k) # BLOCKED
              /\ (t[2] = 0 \/ SquareAt(b, t[1], t[2] - 1) = BLOCKED)
              /\ (t[2] + t[3] = b.n_cols \/ SquareAt(b, t[1], t[2] + t[3]) = BLOCKED)}}

\* The maximal vertical runs of non-blocked squares, as the clues they call for.
DownRuns(b) ==
    {Clue("Down", Position(r, c), n) :
        <<r, c, n>> \in
          {t \in (0..(b.n_rows - 1)) \X (0..(b.n_cols - 1)) \X (1..b.n_rows) :
              /\ t[1] + t[3] <= b.n_rows
              /\ \A k \in t[1]..(t[1] + t[3] - 1) : SquareAt(b, k, t[2]) # BLOCKED
              /\ (t[1] = 0 \/ SquareAt(b, t[1] - 1, t[2]) = BLOCKED)
              /\ (t[1] + t[3] = b.n_rows \/ SquareAt(b, t[1] + t[3], t[2]) = BLOCKED)}}

\* C22: Board::clues returns exactly one Across clue for every maximal
\* horizontal run of non-blocked squares and exactly one Down clue for every
\* maximal vertical run, starting at the run's first square with the run's
\* length: none starts inside a run or on a blocked square, none passes the
\* board edge.
C22_CluesAreTheMaximalRuns ==
    clues # None =>
        LET cs == clues[1]
        IN /\ \A i, j \in 1..Len(cs) : i # j => cs[i] # cs[j]
           /\ {cs[i] : i \in 1..Len(cs)} = AcrossRuns(board) \cup DownRuns(board)

C22_Witness ==
    /\ clues # None
    /\ board.n_rows = MaxRows /\ board.n_cols = MaxCols
    /\ \E i \in 1..Len(board.squares) : board.squares[i] = BLOCKED
    /\ \E i \in 1..Len(clues[1]) :
          clues[1][i].direction = "Across" /\ clues[1][i].length = 1
                                           /\ clues[1][i].start.col = 2
    /\ \E i \in 1..Len(clues[1]) :
          clues[1][i].direction = "Down" /\ clues[1][i].length = MaxRows

\* ---- the letter-chain game -----------------------------------------------------
VocabWords == UNION {[1..n -> Symbols] : n \in 1..MaxVocabWordLen}
VocabLines == UNION {[1..n -> VocabWords \X Costs] : n \in 0..MaxVocab}

\* LettersBoxedGame::new: the letters of the sides and the loaded vocabulary.
LettersBoxedGame_new(sides, lines) ==
    /\ ~letters.built
    /\ letters' = [built |-> TRUE, at |-> sides]
    /\ ptree' = load_vocabulary(lines)
    /\ pkeys' = VocabularyPairs(lines)
    /\ UNCHANGED <<nodes, inserted, npush, trav, trav2, rtrie, rhist,
                 snode, spushed, word_list, vocab, board, clues, legal_words,
                 reach>>

\* solve(): the legal words are computed and the search is set up.
Solve ==
    /\ letters.built
    /\ reach.state = "none"
    /\ legal_words' = Some(all_possible_words(letters.at, ptree))
    /\ reach' = dijkstra_reach(GameState_default)
    /\ UNCHANGED <<nodes, inserted, npush, trav, trav2, rtrie, rhist, ptree, pkeys,
                 snode, spushed, word_list, vocab, board, clues, letters>>

\* next() on the iterator solve() returned.
SolveNext ==
    /\ reach.state = "live"
    /\ reach' = solve_next(legal_words[1], reach)
    /\ UNCHANGED <<nodes, inserted, npush, trav, trav2, rtrie, rhist, ptree, pkeys,
                 snode, spushed, word_list, vocab, board, clues, letters,
                 legal_words>>

NextLetters ==
    \/ \E sides \in [LbPositions -> Symbols], lines \in VocabLines :
          LettersBoxedGame_new(sides, lines)
    \/ Solve
    \/ SolveNext

SpecLetters == Init /\ [][NextLetters]_vars

\* ---- the course of a traversal ---------------------------------------------
\* next() called once more on the traversal.
NextAgain(t) ==
    IF t.kind = "dfs" THEN dfs_next(nodes, t) ELSE dijkstra_next(nodes, t)

Distinct(seq) == \A i, j \in 1..Len(seq) : i # j => seq[i] # seq[j]

\* C23: every traversal terminates: next() returns each arena node at most
\* once, so that after at most one call per node it returns
\* end-of-iteration, and every further call returns end-of-iteration too.
C23_EveryTraversalEnds ==
    trav.kind # "none" =>
        /\ Distinct(trav.visited)
        /\ Len(trav.visited) <= Len(nodes)
        /\ trav.status # "panic"
        /\ trav.status = "done" => NextAgain(trav) = trav

\* The position of a node in the order of visit, 0 if it was not visited.
VisitPosition(index) ==
    IF \E i \in 1..Len(trav.visited) : trav.visited[i] = index
    THEN CHOOSE i \in 1..Len(trav.visited) : trav.visited[i] = index
    ELSE 0

RECURSIVE IsInSubtree(_, _, _)
\* Node x is the node top or lies below it.
IsInSubtree(ns, top, x) ==
    \/ x = top
    \/ /\ ns[x + 1].parent # None
       /\ IsInSubtree(ns, top, ns[x + 1].parent[1])

\* The pairs of siblings (earlier stored, later stored) that were both visited.
VisitedSiblings ==
    {pair \in (0..(Len(nodes) - 1)) \X (0..(Len(nodes) - 1)) :
        /\ VisitPosition(pair[1]) # 0 /\ VisitPosition(pair[2]) # 0
        /\ \E parent_index \in 0..(Len(nodes) - 1) :
             LET cs == nodes[parent_index + 1].children
             IN \E i, j \in 1..Len(cs) :
                   i < j /\ cs[i] = pair[1] /\ cs[j] = pair[2]}

ParentsFirst ==
    \A i \in 1..Len(trav.visited) :
        LET node == nodes[trav.visited[i] + 1]
        IN node.parent # None =>
             (VisitPosition(node.parent[1]) # 0
                /\ VisitPosition(node.parent[1]) < i)

\* C24 as stated: the unordered traversal is depth-first and takes the
\* children in storage order: the earlier-stored child and its whole
\* subtree are visited before any later-stored sibling.
C24_EarlierStoredSiblingFirst ==
    (trav.kind = "dfs" /\ trav.status = "done") =>
        /\ ParentsFirst
        /\ \A pair \in VisitedSiblings :
             \A x \in 0..(Len(nodes) - 1) :
                (IsInSubtree(nodes, pair[1], x) /\ VisitPosition(x) # 0)
                    => VisitPosition(x) < VisitPosition(pair[2])

\* C24, amended: the traversal is depth-first and takes the children in
\* reverse storage order: the later-stored child and its whole subtree are
\* visited before any earlier-stored sibling.
C24_LaterStoredSiblingFirst ==
    (trav.kind = "dfs" /\ trav.status = "done") =>
        /\ ParentsFirst
        /\ \A pair \in VisitedSiblings :
             \A x \in 0..(Len(nodes) - 1) :
                (IsInSubtree(nodes, pair[2], x) /\ VisitPosition(x) # 0)
                    => VisitPosition(x) < VisitPosition(pair[1])

C24_Witness ==
    /\ trav.kind = "dfs" /\ trav.status = "done" /\ trav.pattern = None
    /\ InsertedWords = {<<1>>, <<2, 1>>}
    /\ Len(nodes) = 6 /\ Len(trav.visited) = 6
    /\ VisitedSiblings # {}

\* ---- the nodes a pattern admits -------------------------------------------
RECURSIVE PathIndices(_, _)
\* The indices on the way from the root (first) to the node (last).
PathIndices(ns, index) ==
    IF ns[index + 1].parent = None THEN <<index>>
    ELSE Append(PathIndices(ns, ns[index + 1].parent[1]), index)

\* A key satisfies a constraint: the wildcard, or the very key.
Satisfies(key, query) == query = None \/ query = Some(key)

\* The nodes consistent with a pattern (None: no pattern): those at a depth
\* below the pattern's length whose keys from depth 1 on satisfy the
\* constraints of their depths.
ConsistentNodes(ns, pattern) ==
    {index \in 0..(Len(ns) - 1) :
        \/ pattern = None
        \/ LET path == PathIndices(ns, index)
               depth == Len(path) - 1
           IN /\ depth < Len(pattern[1])
              /\ \A k \in 1..depth :
                    Satisfies(ns[path[k + 1] + 1].key, pattern[1][k + 1])}

VisitsTheConsistentNodes ==
    (trav.kind = "dfs" /\ Ended) =>
        /\ Distinct(trav.visited)
        /\ {trav.visited[i] : i \in 1..Len(trav.visited)}
             = ConsistentNodes(nodes, trav.pattern)

\* TrieDfsTraversal::from_root(&trie, Some(pattern)).count()
VisitCount(ns, pattern) ==
    Len(collect_unordered(ns, dfs_from_root(Some(pattern))).visited)

CompiledPatterns == {q[1] : q \in Patterns \ {None}}

MatchesCompiled(w, pattern) ==
    /\ Len(w) = Len(pattern) - 2
    /\ \A i \in 1..Len(w) : Satisfies(Internal(w[i]), pattern[i + 1])

WordPaths(w) ==
    {path \in [1..Len(w) -> LbPositions] :
        /\ \A i \in 1..Len(w) : letters.at[path[i]] = w[i]
        /\ \A i \in 1..(Len(w) - 1) : path[i][1] # path[i + 1][1]}

PathPositions(path) == {path[i] : i \in 1..Len(path)}

LegalEntry(start, entry) ==
    /\ Node_get(ptree, entry.word).tag = "Value"
    /\ entry.word # <<>>
    /\ entry.word[1] = letters.at[start]
    /\ \A n \in 2..Len(entry.word) :
          Node_get(ptree, SubSeq(entry.word, 1, n)).tag # "NotFound"
    /\ \E path \in WordPaths(entry.word) :
          /\ path[1] = start
          /\ entry.pos = path[Len(path)]
          /\ entry.letters = PathPositions(path)

\* C26: every entry all_possible_words produces for a starting position is
\* a complete vocabulary word that begins with the letter at that position,
\* whose consecutive letters come from different sides, and whose recorded
\* end position and used letters are those of the letters traversed; every
\* prefix it was extended through is known to the vocabulary.
C26_LegalWordsAreTracedVocabularyWords ==
    legal_words # None =>
        \A start \in LbPositions : \A i \in 1..Len(legal_words[1][start]) :
            LegalEntry(start, legal_words[1][start][i])

C26_Witness ==
    /\ legal_words # None
    /\ \E start \in LbPositions : \E i \in 1..Len(legal_words[1][start]) :
          LET entry == legal_words[1][start][i]
          IN /\ Len(entry.word) = 3
             /\ entry.pos = start
             /\ Cardinality(entry.letters) = 2

RECURSIVE Plays(_)
\* The (end position, positions used) pairs of the ways of playing the
\* words of ms in turn, each word after the first from the position where
\* the one before it ended.
Plays(ms) ==
    IF Len(ms) = 1
    THEN {[pos |-> path[Len(path)], used |-> PathPositions(path)] :
             path \in WordPaths(ms[1])}
    ELSE LET before == Plays(SubSeq(ms, 1, Len(ms) - 1))
             last == ms[Len(ms)]
         IN UNION {{[pos |-> path[Len(path)],
                     used |-> s.used \cup PathPositions(path)] :
                      path \in {q \in WordPaths(last) : q[1] = s.pos}} :
                   s \in before}

WinningPlay(ms) ==
    /\ ms # <<>>
    /\ \A i \in 1..Len(ms) : ms[i] # <<>> /\ Node_get(ptree, ms[i]).tag = "Value"
    /\ \E s \in Plays(ms) : s.used = LbPositions
    /\ \E i \in 1..Len(reach.parents) :
          /\ reach.parents[i].node.moves = ms
          /\ reach.parents[i].node.letters_used = LbPositions

\* C27: every move sequence solve() yields is a valid winning play: its
\* words are vocabulary words, each word after the first starts at the
\* position where the previous word ended, and the letters its words use
\* cover every position of the board; it is the move list of a state that
\* covers the board.
C27_YieldedPlaysWin ==
    \A i \in 1..Len(reach.yielded) : WinningPlay(reach.yielded[i])

C27_Witness ==
    /\ reach.yielded # <<>>
    /\ Len(reach.yielded[1]) = 2
    /\ \A s \in Plays(<<reach.yielded[1][1]>>) : s.used # LbPositions

\* ---- the shape of the insert-only tries -------------------------------------------
\* The arena: sibling keys differ, End nodes are leaves, Start is the root's.
ArenaWellKeyed ==
    \A index \in 0..(Len(nodes) - 1) :
        LET cs == nodes[index + 1].children
        IN /\ \A a, b \in 1..Len(cs) :
                 a # b => nodes[cs[a] + 1].key # nodes[cs[b] + 1].key
           /\ nodes[index + 1].key = End => cs = <<>>
           /\ nodes[index + 1].key = Start <=> index = 0

RECURSIVE SortedNodeWellKeyed(_)
\* The recursive variant below a node: children strictly ascending by key
\* (so sibling keys differ), End nodes are leaves, no child carries Start.
SortedNodeWellKeyed(node) ==
    /\ \A a, b \in 1..Len(node.children) :
          a < b => KeyLess(node.children[a].contents, node.children[b].contents)
    /\ node.contents = End => node.children = <<>>
    /\ \A a \in 1..Len(node.children) :
          /\ node.children[a].contents # Start
          /\ SortedNodeWellKeyed(node.children[a])

\* C28: in every state reachable by inserts no node has two children with
\* the same key, an End node has no children and Start is the key of the
\* root only; the children of a node of the recursive variant are in
\* strictly ascending key order.
C28_SiblingKeysDifferAndSorted ==
    /\ ArenaWellKeyed
    /\ snode.contents = Start
    /\ SortedNodeWellKeyed(snode)

C28_Witness ==
    /\ Len(nodes) > 0 /\ Len(nodes[1].children) = 2
    /\ Len(spushed) = 3 /\ spushed[1][1] = <<2>> /\ spushed[2][1] = <<>>
    /\ Len(snode.children) = 3
    /\ snode.children[3].contents = End

\* ---- the links of the arena --------------------------------------------------
\* How often x occurs in a sequence.
Occurrences(seq, x) == Cardinality({k \in 1..Len(seq) : seq[k] = x})

LinksConsistent(ns) ==
    \A index \in 0..(Len(ns) - 1) :
        /\ ns[index + 1].parent = None <=> index = 0
        /\ index > 0 =>
              /\ ns[index + 1].parent[1] < index
              /\ \A other \in 0..(Len(ns) - 1) :
                    Occurrences(ns[other + 1].children, index)
                      = IF other = ns[index + 1].parent[1] THEN 1 ELSE 0
        /\ \A k \in 1..Len(ns[index + 1].children) :
              ns[index + 1].children[k] \in (index + 1)..(Len(ns) - 1)

\* C29: in every state reachable by inserts the links of the arena are
\* consistent and acyclic: node 0 is the only node without a parent, every
\* other node has a parent of smaller index, occurs exactly once in that
\* parent's child list and in no other child list, and the walk along the
\* parent links from any node ends at the root after at most one step per
\* node.
C29_LinksConsistentAndAcyclic ==
    /\ LinksConsistent(nodes)
    /\ \A index \in 0..(Len(nodes) - 1) :
          LET path == PathIndices(nodes, index)
          IN /\ Len(path) <= Len(nodes)
             /\ path[1] = 0
             /\ path[Len(path)] = index
             /\ Len(path_to_root(nodes, index)) < Len(path)

C29_Witness ==
    /\ Len(nodes) = 7
    /\ Len(nodes[1].children) = 2
    /\ \E index \in 1..6 : Len(nodes[index + 1].children) = 2
    /\ \E index \in 1..6 : nodes[index + 1].parent \notin {None, Some(0)}

\* ---- the removable trie has no dead leaf -----------------------------------------
RECURSIVE NoDeadLeaf(_)
\* Every node below this one holds a value or has a child.
NoDeadLeaf(node) ==
    \A k \in 1..Len(node.children) :
        /\ node.children[k].value # None \/ node.children[k].children # <<>>
        /\ NoDeadLeaf(node.children[k])

\* C30: after any interleaving of inserts and removes no node of the
\* removable trie but the root is without both value and children, and
\* contains_prefix(q) is true exactly when q is empty or a prefix of a key
\* stored at that moment.
C30_NoDeadLeafAndExactPrefixes ==
    /\ NoDeadLeaf(rtrie)
    /\ \A q \in QueryWords :
          Trie_contains_prefix(rtrie, q)
            <=> (q = <<>> \/ \E k \in KeysAfter(rhist) : IsPrefix(q, k))

\* C30 witness: 1 1 was inserted; 1, only a prefix, and 2, never inserted,
\* were removed; then 1 1 was removed and took the emptied node of 1 along.
C30_Witness ==
    /\ Len(rhist) = 4
    /\ rhist[1].op = "insert" /\ rhist[1].key = <<1, 1>>
    /\ rhist[2].op = "remove" /\ rhist[2].key = <<1>>
    /\ rhist[3].op = "remove" /\ rhist[3].key = <<2>>
    /\ rhist[4].op = "remove" /\ rhist[4].key = <<1, 1>>
    /\ ~Trie_contains_prefix(rtrie, <<1>>)
    /\ Trie_is_empty(rtrie)

====
